---- MODULE Spec2Model ----
(***************************************************************************)
(* Model of updates.js: the version-resolution engine (findVersion,        *)
(* findNewVersion, updateRange and the semver primitives they call) and    *)
(* the batch that fetches every dependency's metadata, joins the fetches   *)
(* with Promise.all and reports through finish().                          *)
(*                                                                         *)
(* Strings are sequences of one-character strings, so that the regular     *)
(* expressions of the source are modelled by what they match.              *)
(***************************************************************************)
EXTENDS Naturals, Sequences, FiniteSets, TLC

(***************************************************************************)
(* Characters and numbers                                                  *)
(***************************************************************************)
Digits == <<"0", "1", "2", "3", "4", "5", "6", "7", "8", "9">>

IsDigit(c) == \E i \in 1..Len(Digits) : Digits[i] = c

DigitVal(c) == (CHOOSE i \in 1..Len(Digits) : Digits[i] = c) - 1

RECURSIVE NatChars(_)
NatChars(n) ==
  IF n < 10 THEN <<Digits[n + 1]>>
  ELSE NatChars(n \div 10) \o <<Digits[(n % 10) + 1]>>

RECURSIVE ParseNat(_)
ParseNat(s) ==
  IF s = <<>> THEN 0
  ELSE 10 * ParseNat(SubSeq(s, 1, Len(s) - 1)) + DigitVal(s[Len(s)])

\* Index just after the run of digits that starts at p (p itself when s[p]
\* is no digit or p is past the end).
RECURSIVE RunEnd(_, _)
RunEnd(s, p) ==
  IF p <= Len(s) /\ IsDigit(s[p]) THEN RunEnd(s, p + 1) ELSE p

\* The characters prerelease identifiers are written with, in code-point
\* order.
Alphabet == Digits \o <<"a", "b", "c", "e", "h", "l", "p", "r", "t">>

CharRank(c) == CHOOSE i \in 1..Len(Alphabet) : Alphabet[i] = c

(***************************************************************************)
(* Values: a SemVer, JavaScript null, and the string "*"                    *)
(***************************************************************************)
Null == [kind |-> "null"]

Star == [kind |-> "star"]

V(major, minor, patch, pre) ==
  [kind |-> "version", major |-> major, minor |-> minor, patch |-> patch,
   pre |-> pre]

IsVersion(v) == v.kind = "version"

(***************************************************************************)
(* semver: the library calls of the source                                 *)
(***************************************************************************)
\* /^[0-9]+$/.test(identifier)
IsNumeric(a) == a # <<>> /\ \A i \in 1..Len(a) : IsDigit(a[i])

\* semver's compareIdentifiers: numbers before words, numbers by value,
\* words by code point.
RECURSIVE CompareWords(_, _)
CompareWords(a, b) ==
  IF a = <<>> /\ b = <<>> THEN 0
  ELSE IF a = <<>> THEN 0 - 1
  ELSE IF b = <<>> THEN 1
  ELSE IF CharRank(a[1]) < CharRank(b[1]) THEN 0 - 1
  ELSE IF CharRank(a[1]) > CharRank(b[1]) THEN 1
  ELSE CompareWords(Tail(a), Tail(b))

CompareNat(a, b) == IF a < b THEN 0 - 1 ELSE IF a > b THEN 1 ELSE 0

CompareIdentifiers(a, b) ==
  IF IsNumeric(a) /\ IsNumeric(b) THEN CompareNat(ParseNat(a), ParseNat(b))
  ELSE IF IsNumeric(a) THEN 0 - 1
  ELSE IF IsNumeric(b) THEN 1
  ELSE CompareWords(a, b)

\* SemVer.comparePre: a release is greater than any of its prereleases.
RECURSIVE ComparePreFrom(_, _, _)
ComparePreFrom(a, b, i) ==
  IF i > Len(a) /\ i > Len(b) THEN 0
  ELSE IF i > Len(b) THEN 1
  ELSE IF i > Len(a) THEN 0 - 1
  ELSE IF CompareIdentifiers(a[i], b[i]) # 0 THEN CompareIdentifiers(a[i], b[i])
  ELSE ComparePreFrom(a, b, i + 1)

ComparePre(a, b) ==
  IF a # <<>> /\ b = <<>> THEN 0 - 1
  ELSE IF a = <<>> /\ b # <<>> THEN 1
  ELSE IF a = <<>> /\ b = <<>> THEN 0
  ELSE ComparePreFrom(a, b, 1)

\* semver.compare
Compare(a, b) ==
  IF CompareNat(a.major, b.major) # 0 THEN CompareNat(a.major, b.major)
  ELSE IF CompareNat(a.minor, b.minor) # 0 THEN CompareNat(a.minor, b.minor)
  ELSE IF CompareNat(a.patch, b.patch) # 0 THEN CompareNat(a.patch, b.patch)
  ELSE ComparePre(a.pre, b.pre)

Gt(a, b) == Compare(a, b) = 1

Gte(a, b) == Compare(a, b) # 0 - 1

\* semver.diff: null ("null" here) for equal versions, else the first of
\* major, minor, patch that differs, with the prefix "pre" when either
\* version carries a prerelease tag, else "prerelease".
Diff(a, b) ==
  IF Compare(a, b) = 0 THEN "null"
  ELSE LET prefixed == a.pre # <<>> \/ b.pre # <<>>
       IN IF a.major # b.major
            THEN (IF prefixed THEN "premajor" ELSE "major")
          ELSE IF a.minor # b.minor
            THEN (IF prefixed THEN "preminor" ELSE "minor")
          ELSE IF a.patch # b.patch
            THEN (IF prefixed THEN "prepatch" ELSE "patch")
          ELSE "prerelease"

\* diff.replace(/^pre/, "")
StripPre(d) ==
  CASE d = "premajor" -> "major"
    [] d = "preminor" -> "minor"
    [] d = "prepatch" -> "patch"
    [] d = "prerelease" -> "release"
    [] OTHER -> d

\* The text of a prerelease tag and of a value, as String(value) gives it.
RECURSIVE PreChars(_)
PreChars(pre) ==
  IF Len(pre) = 1 THEN pre[1]
  ELSE pre[1] \o <<".">> \o PreChars(Tail(pre))

Format(v) ==
  IF v = Null THEN <<"n", "u", "l", "l">>
  ELSE IF v = Star THEN <<"*">>
  ELSE NatChars(v.major) \o <<".">> \o NatChars(v.minor) \o <<".">>
       \o NatChars(v.patch)
       \o (IF v.pre = <<>> THEN <<>> ELSE <<"-">> \o PreChars(v.pre))

\* Position of the first digit of s at or after p, 0 when there is none.
RECURSIVE FirstDigit(_, _)
FirstDigit(s, p) ==
  IF p > Len(s) THEN 0
  ELSE IF IsDigit(s[p]) THEN p
  ELSE FirstDigit(s, p + 1)

\* semver.coerce: the first run of digits is the major; ".digits" after it,
\* up to twice, are minor and patch; everything else, a prerelease tag
\* included, is dropped. Null when the text holds no digit.
Coerce(s) ==
  LET p == FirstDigit(s, 1) IN
  IF p = 0 THEN Null
  ELSE LET e1 == RunEnd(s, p)
           hasMinor == e1 < Len(s) /\ s[e1] = "." /\ IsDigit(s[e1 + 1])
           e2 == IF hasMinor THEN RunEnd(s, e1 + 1) ELSE e1
           hasPatch == hasMinor /\ e2 < Len(s) /\ s[e2] = "."
                       /\ IsDigit(s[e2 + 1])
           e3 == IF hasPatch THEN RunEnd(s, e2 + 1) ELSE e2
       IN V(ParseNat(SubSeq(s, p, e1 - 1)),
            IF hasMinor THEN ParseNat(SubSeq(s, e1 + 1, e2 - 1)) ELSE 0,
            IF hasPatch THEN ParseNat(SubSeq(s, e2 + 1, e3 - 1)) ELSE 0,
            <<>>)

(***************************************************************************)
(* The regular expressions of the source                                   *)
(***************************************************************************)
\* [0-9]+\.[0-9]+\.[0-9]+ matched at p: the index just after the match, or 0.
CoreMatchEnd(s, p) ==
  LET e1 == RunEnd(s, p)
      e2 == RunEnd(s, e1 + 1)
      e3 == RunEnd(s, e2 + 1)
  IN IF /\ e1 > p
        /\ e1 <= Len(s) /\ s[e1] = "." /\ e2 > e1 + 1
        /\ e2 <= Len(s) /\ s[e2] = "." /\ e3 > e2 + 1
     THEN e3 ELSE 0

\* (-.+)? after a core that ends just before e: the dot matches every
\* character of the line, so the group, when it matches, runs to the end.
TagMatchEnd(s, e) ==
  IF e < Len(s) /\ s[e] = "-" THEN Len(s) + 1 ELSE e

\* /[0-9]+\.[0-9]+\.[0-9]+-.+/.test(range)
isRangePrerelease(range) ==
  \E p \in 1..Len(range) :
    LET e == CoreMatchEnd(range, p)
    IN e # 0 /\ e < Len(range) /\ range[e] = "-"

\* range.replace(/[0-9]+\.[0-9]+\.[0-9]+(-.+)?/g, version), scanning from p:
\* each match, leftmost first, is replaced and the scan goes on after it.
RECURSIVE ReplaceFrom(_, _, _)
ReplaceFrom(range, p, text) ==
  IF p > Len(range) THEN <<>>
  ELSE LET e == CoreMatchEnd(range, p)
       IN IF e = 0 THEN <<range[p]>> \o ReplaceFrom(range, p + 1, text)
          ELSE text \o ReplaceFrom(range, TagMatchEnd(range, e), text)

updateRange(range, version) == ReplaceFrom(range, 1, Format(version))

isVersionPrerelease(version) == IsVersion(version) /\ version.pre # <<>>

rangeToVersion(range) == Coerce(range)

(***************************************************************************)
(* Inputs: published versions, manifest ranges, publish times              *)
(***************************************************************************)
MaxVersions == 3

MaxTime == 3

Beta == <<"b", "e", "t", "a">>

V100b1 == V(1, 0, 0, <<Beta, <<"1">>>>)

V100b2 == V(1, 0, 0, <<Beta, <<"2">>>>)

V100 == V(1, 0, 0, <<>>)

V101 == V(1, 0, 1, <<>>)

V110 == V(1, 1, 0, <<>>)

V200b1 == V(2, 0, 0, <<Beta, <<"1">>>>)

V200 == V(2, 0, 0, <<>>)

\* The version keys a registry may list (those that pass semver.valid).
Universe == {V100b1, V100b2, V100, V101, V110, V200b1, V200}

RStar == <<"*">>

RCaret100 == <<"^">> \o Format(V100)

RBeta1 == Format(V100b1)

RCaret110 == <<"^">> \o Format(V110)

ROr == Format(V100) \o <<" ", "|", "|", " ">> \o Format(V200)

RCmp == <<">", "=">> \o Format(V101) \o <<" ", "<">> \o Format(V200)

RX == <<"x">>

\* Manifest ranges that pass isValidSemverRange.
Ranges == {RStar, RCaret100, RBeta1, RCaret110, ROr, RCmp, RX}

\* semvers as the then-callback builds it from --patch and --minor.
Ceilings == {{"patch"}, {"patch", "minor"}, {"patch", "minor", "major"}}

\* A publish time as getTime() gives it; 0 stands for every value the scan
\* can never select (the epoch, a negative time, NaN of a missing entry).
Dates == 0..MaxTime

\* A data.time without entries.
NoTimes == [v \in {} |-> 0]

(***************************************************************************)
(* findVersion                                                             *)
(***************************************************************************)
\* usePre of findVersion: the range is a prerelease or --prerelease applies.
allowPre(opts) == isRangePrerelease(opts.range) \/ opts.usePre

\* accepted with the pre<word> of every class pushed, whatever the ceiling.
acceptedAllPre(opts) ==
  IF allowPre(opts)
    THEN opts.semvers \cup {"prerelease", "prepatch", "preminor", "premajor"}
  ELSE opts.semvers

\* semvers of findVersion after the pre<word> classes are pushed.
accepted(opts) ==
  IF allowPre(opts)
    THEN opts.semvers \cup {"prerelease"}
         \cup (IF "patch" \in opts.semvers THEN {"prepatch"} ELSE {})
         \cup (IF "minor" \in opts.semvers THEN {"preminor"} ELSE {})
         \cup (IF "major" \in opts.semvers THEN {"premajor"} ELSE {})
  ELSE opts.semvers

\* The choice between the two tie-breaks: greatest, or no "time" in data.
byGreatest(opts, timeInData) == opts.useGreatest \/ ~timeInData

\* semver.gte(semver.coerce(parsed.version).version, tempVersion)
notLower(version, tempVersion) == Gte(Coerce(Format(version)), tempVersion)

\* skipsPrerelease without the release-only half of its condition.
skipsPrereleaseUnlessRel(opts, version) ==
  version.pre # <<>> /\ ~allowPre(opts)

\* parsed.prerelease.length && (!usePre || opts.useRel)
skipsPrerelease(opts, version) ==
  version.pre # <<>> /\ (~allowPre(opts) \/ opts.useRel)

\* isNewer without the comparison with the best publish time so far.
isNewerThanEpoch(date, tempDate) == date > 0

\* date >= 0 && date > tempDate
isNewer(date, tempDate) == date >= 0 /\ date > tempDate

\* One pass of the for loop over st = [tempVersion, tempDate, threw];
\* semver.diff throws on a null tempVersion.
loopBody(opts, timeInData, st, version, date) ==
  IF st.threw THEN st
  ELSE IF skipsPrerelease(opts, version) THEN st
  ELSE IF st.tempVersion = Null THEN [st EXCEPT !.threw = TRUE]
  ELSE LET diff == Diff(st.tempVersion, version) IN
       IF diff = "null" \/ diff \notin accepted(opts) THEN st
       ELSE IF byGreatest(opts, timeInData)
         THEN (IF notLower(version, st.tempVersion)
                 THEN [st EXCEPT !.tempVersion = version]
                 ELSE st)
       ELSE IF isNewer(date, st.tempDate)
         THEN [st EXCEPT !.tempVersion = version, !.tempDate = date]
       ELSE st

\* return tempVersion || null
findVersionResult(st) == st.tempVersion

(***************************************************************************)
(* findNewVersion, after findVersion returned version                      *)
(***************************************************************************)
Threw == [kind |-> "threw"]

\* Lines 485 to 527; semver.coerce(opts.range).version throws on a range
\* that holds no digit, and semver.diff on a "latest" that is no version.
decide(opts, version, latestTag) ==
  IF opts.useGreatest THEN version
  ELSE IF Coerce(opts.range) = Null THEN Threw
  ELSE LET oldVersion == Coerce(opts.range)
           oldIsPre == isRangePrerelease(opts.range)
           newIsPre == isVersionPrerelease(version)
           isGreater == Gt(version, oldVersion)
           diff == Diff(oldVersion, latestTag)
       IN IF (~opts.useRel /\ opts.usePre) \/ (oldIsPre /\ newIsPre)
            THEN version
          ELSE IF opts.useRel /\ ~isGreater /\ oldIsPre /\ ~newIsPre
            THEN version
          ELSE IF oldIsPre /\ ~newIsPre /\ isGreater THEN version
          ELSE IF oldIsPre /\ ~newIsPre /\ ~isGreater THEN Null
          ELSE IF ~IsVersion(latestTag) THEN Threw
          ELSE IF diff # "null" /\ diff # "prerelease"
                  /\ StripPre(diff) \notin opts.semvers
            THEN version
          ELSE IF opts.useRel /\ isVersionPrerelease(latestTag) THEN version
          ELSE latestTag

\* The for loop of findVersion over versions[i..], and findNewVersion as a
\* whole on the metadata data = [versions, timeInData, time, latest].
RECURSIVE loopFrom(_, _, _, _)
loopFrom(opts, data, st, i) ==
  IF i > Len(data.versions) THEN st
  ELSE loopFrom(opts, data,
                loopBody(opts, data.timeInData, st, data.versions[i],
                         data.time[data.versions[i]]),
                i + 1)

findNewVersion(data, opts) ==
  IF opts.range = <<"*">> THEN Star
  ELSE LET st == loopFrom(opts, data,
                          [tempVersion |-> rangeToVersion(opts.range),
                           tempDate |-> 0, threw |-> FALSE], 1)
       IN IF st.threw THEN Threw
          ELSE decide(opts, findVersionResult(st), data.latest)

(***************************************************************************)
(* The batch: arguments, manifest, registry responses                      *)
(***************************************************************************)
NumDeps == 2

\* Dependency names.
Names == 1..NumDeps

\* parseMixedArg: true, false or a list of package names.
Yes == [boolean |-> TRUE, value |-> TRUE, list |-> {}]

No == [boolean |-> TRUE, value |-> FALSE, list |-> {}]

List(names) == [boolean |-> FALSE, value |-> FALSE, list |-> names]

MixedArgs == {Yes, No, List({1})}

\* typeof arg === "boolean" ? arg : arg.includes(name)
applies(arg, name) == IF arg.boolean THEN arg.value ELSE name \in arg.list

\* The command lines of the model: the mixed arguments and --update.
Args ==
  {a \in [greatest : MixedArgs, prerelease : MixedArgs, release : MixedArgs,
          patch : MixedArgs, minor : MixedArgs, update : BOOLEAN] :
     \/ /\ a.greatest = No /\ a.release = No /\ a.patch = No /\ a.minor = No
     \/ /\ a.prerelease = List({1}) /\ a.release = Yes /\ a.patch = No
        /\ a.minor = List({1}) /\ a.greatest = No
     \/ /\ a.prerelease = No /\ a.release = No /\ a.patch = List({1})
        /\ a.minor = Yes /\ a.greatest = List({1})}

\* semvers of the then-callback for the package name.
semversFor(a, name) ==
  IF a.patch = Yes \/ (~a.patch.boolean /\ name \in a.patch.list)
    THEN {"patch"}
  ELSE IF a.minor = Yes \/ (~a.minor.boolean /\ name \in a.minor.list)
    THEN {"patch", "minor"}
  ELSE {"patch", "minor", "major"}

optsFor(a, name, oldRange) ==
  [usePre |-> applies(a.prerelease, name),
   useRel |-> applies(a.release, name),
   useGreatest |-> applies(a.greatest, name),
   semvers |-> semversFor(a, name),
   range |-> oldRange]

\* The ranges of the manifests of the model.
ManifestRanges == {RCaret100, RBeta1, RStar, RX}

Undefined == <<"undefined">>

\* deps as the manifest scan leaves it: {old} for every name.
Manifests == [Names -> [old : ManifestRanges, new : {Undefined}]]

\* Registry bodies: metadata of a package with newer versions, of a package
\* whose only version is 1.0.0, and a body that carries an error field.
PkgNewer ==
  [error |-> FALSE, versions |-> <<V100, V101, V110, V200b1, V200>>,
   timeInData |-> TRUE,
   time |-> [v \in {V100, V101, V110, V200b1, V200} |->
               CHOOSE t \in 1..5 : <<V100, V101, V110, V200b1, V200>>[t] = v],
   latest |-> V200]

PkgSame ==
  [error |-> FALSE, versions |-> <<V100>>, timeInData |-> FALSE,
   time |-> [v \in {V100} |-> 0], latest |-> V100]

ErrorBody ==
  [error |-> TRUE, versions |-> <<>>, timeInData |-> FALSE, time |-> NoTimes,
   latest |-> Null]

NoData == [error |-> FALSE, versions |-> <<>>, timeInData |-> FALSE,
           time |-> NoTimes, latest |-> Null]

\* dati holds the bodies by these keys.
Bodies == {"newer", "same", "error"}

bodyOf(key) ==
  CASE key = "newer" -> PkgNewer
    [] key = "same" -> PkgSame
    [] key = "error" -> ErrorBody
    [] OTHER -> NoData

\* Errors, by what raised them and for which dependency.
NoError == [what |-> "none", name |-> 0]

Err(what, name) == [what |-> what, name |-> name]

(***************************************************************************)
(* The then-callback and finish                                            *)
(***************************************************************************)
\* upToDate without the comparison of the ranges.
upToDateIfNull(newVersion, oldRange, newRange) == newVersion = Null

\* !newVersion || oldRange === newRange
upToDate(newVersion, oldRange, newRange) ==
  newVersion = Null \/ oldRange = newRange

\* The for loop of the then-callback from entry i on, over d = deps: the
\* loop ends by a throw (an error field, or findNewVersion throwing) or
\* after the last entry.
RECURSIVE resolveFrom(_, _, _, _)
resolveFrom(d, dati, a, i) ==
  IF i > NumDeps THEN [deps |-> d, error |-> NoError]
  ELSE IF bodyOf(dati[i]).error
    THEN [deps |-> d, error |-> Err("error field", i)]
  ELSE LET oldRange == d[i].old
           newVersion == findNewVersion(bodyOf(dati[i]),
                                        optsFor(a, i, oldRange))
           newRange == updateRange(oldRange, newVersion)
       IN IF newVersion = Threw
            THEN [deps |-> d, error |-> Err("TypeError", i)]
          ELSE IF upToDate(newVersion, oldRange, newRange)
            THEN resolveFrom([n \in DOMAIN d \ {i} |-> d[n]], dati, a, i + 1)
          ELSE resolveFrom([d EXCEPT ![i].new = newRange], dati, a, i + 1)

\* Whether finish outputs the result set: as "results" of the JSON object,
\* or as the table when deps is not empty; never with an error.
showsResults(hadError, json, d) ==
  ~hadError /\ (json \/ DOMAIN d # {})

\* finish(obj): what is output, and the exit code.
finish(error, message, d, json, errorOnOutdated) ==
  [exited |-> TRUE,
   error |-> error,
   message |-> message,
   results |-> IF showsResults(error # NoError, json, d)
                 THEN [shown |-> TRUE, deps |-> d]
                 ELSE [shown |-> FALSE, deps |-> <<>>],
   code |-> IF errorOnOutdated THEN (IF DOMAIN d # {} THEN 2 ELSE 0)
            ELSE (IF error # NoError THEN 1 ELSE 0)]

Running ==
  [exited |-> FALSE, error |-> NoError, message |-> "",
   results |-> [shown |-> FALSE, deps |-> <<>>], code |-> 0]

\* A join that fulfils with the first fulfilment.
anyFulfilled(f) == \E n \in Names : f[n] = "fulfilled"

\* Promise.all fulfils when every promise has.
allFulfilled(f) == \A n \in Names : f[n] = "fulfilled"

(***************************************************************************)
(* State                                                                   *)
(***************************************************************************)
VARIABLES
  pc,          \* where the resolution of the package stands
  opts,        \* {usePre, useRel, useGreatest, semvers, range}
  timeInData,  \* "time" in data
  time,        \* data.time where the metadata is fixed before the scan
  versions,    \* the keys of data.versions the for loop has visited
  scan,        \* tempVersion and tempDate of findVersion, and whether it threw
  found,       \* what findVersion returned
  newVersion,  \* what findNewVersion returned
  newRange,    \* updateRange(oldRange, newVersion)
  args,        \* the parsed command line
  deps,        \* the module-scope result set, by dependency name
  gets,        \* where each get(name, registry) stands
  dati,        \* the body each fulfilled get returned
  all,         \* the Promise.all of the gets: its state and its reason
  written,     \* whether package.json was written
  out          \* what finish output, once the process has exited

engineVars ==
  <<pc, opts, timeInData, time, versions, scan, found, newVersion, newRange>>

batchVars == <<args, deps, gets, dati, all, written, out>>

vars == <<engineVars, batchVars>>

Options ==
  [usePre : BOOLEAN, useRel : BOOLEAN, useGreatest : BOOLEAN,
   semvers : Ceilings, range : Ranges]

\* The version keys the registry may list for the package: those of the
\* metadata fixed before the scan, else any.
published == IF DOMAIN time = {} THEN Universe ELSE DOMAIN time

\* A specification of the batch leaves the single resolution idle, and the
\* other way round.
EngineIdle ==
  /\ pc = "idle"
  /\ opts = [usePre |-> FALSE, useRel |-> FALSE, useGreatest |-> FALSE,
             semvers |-> {"patch", "minor", "major"}, range |-> <<"*">>]
  /\ timeInData = FALSE
  /\ time = NoTimes
  /\ versions = {}
  /\ scan = [tempVersion |-> Null, tempDate |-> 0, threw |-> FALSE]
  /\ found = Null
  /\ newVersion = Null
  /\ newRange = <<>>

BatchIdle ==
  /\ args = [greatest |-> No, prerelease |-> No, release |-> No,
             patch |-> No, minor |-> No, update |-> FALSE]
  /\ deps = <<>>
  /\ gets = <<>>
  /\ dati = <<>>
  /\ all = [state |-> "idle", reason |-> NoError]
  /\ written = FALSE
  /\ out = Running

EngineStart ==
  /\ BatchIdle
  /\ pc = "findNewVersion"
  /\ versions = {}
  /\ scan = [tempVersion |-> Null, tempDate |-> 0, threw |-> FALSE]
  /\ found = Null
  /\ newVersion = Null
  /\ newRange = <<>>

Init ==
  /\ opts \in Options
  /\ timeInData \in BOOLEAN
  /\ time = NoTimes
  /\ EngineStart

\* findNewVersion up to the call of findVersion, and findVersion up to its
\* loop; for "*" findNewVersion returns at once and the range is rewritten.
Enter ==
  /\ pc = "findNewVersion"
  /\ IF opts.range = RStar
       THEN /\ pc' = "done"
            /\ newVersion' = Star
            /\ newRange' = updateRange(opts.range, Star)
            /\ UNCHANGED scan
       ELSE /\ pc' = "findVersion"
            /\ scan' = [tempVersion |-> rangeToVersion(opts.range),
                        tempDate |-> 0, threw |-> FALSE]
            /\ UNCHANGED <<newVersion, newRange>>
  /\ UNCHANGED <<opts, timeInData, time, versions, found, batchVars>>

\* One pass of the for loop, on the next key of data.versions.
Visit ==
  /\ pc = "findVersion"
  /\ Cardinality(versions) < MaxVersions
  /\ \E version \in published \ versions :
     \E date \in Dates :
       /\ version \in DOMAIN time => date = time[version]
       /\ versions' = versions \cup {version}
       /\ scan' = loopBody(opts, timeInData, scan, version, date)
  /\ pc' = IF scan'.threw THEN "threw" ELSE pc
  /\ UNCHANGED <<opts, timeInData, time, found, newVersion, newRange,
                 batchVars>>

\* The loop is over: findVersion returns, findNewVersion decides with the
\* "latest" dist-tag, and the then-callback rewrites the range.
Return ==
  /\ pc = "findVersion"
  /\ found' = findVersionResult(scan)
  /\ \E latestTag \in published :
       /\ newVersion' = decide(opts, found', latestTag)
       /\ IF newVersion' = Threw
            THEN pc' = "threw" /\ UNCHANGED newRange
            ELSE pc' = "done"
                 /\ newRange' = updateRange(opts.range, newVersion')
  /\ UNCHANGED <<opts, timeInData, time, versions, scan, batchVars>>

Next == Enter \/ Visit \/ Return

Spec == Init /\ [][Next]_vars

(***************************************************************************)
(* The batch                                                               *)
(***************************************************************************)
BatchInit ==
  /\ EngineIdle
  /\ args \in Args
  /\ deps \in Manifests
  /\ gets = [n \in Names |-> "unissued"]
  /\ dati = [n \in Names |-> "none"]
  /\ all = [state |-> "pending", reason |-> NoError]
  /\ written = FALSE
  /\ out = Running

\* Object.keys(deps).map(name => get(name, registry)): every get runs to its
\* first await, which issues its fetch, unless getAuthAndRegistry of one of
\* them calls finish(err), which exits at once.
FanOut ==
  /\ ~out.exited
  /\ \A n \in Names : gets[n] = "unissued"
  /\ \E failing \in Names \cup {0} :
     \E json \in BOOLEAN, errorOnOutdated \in BOOLEAN :
       IF failing = 0
         THEN /\ gets' = [n \in Names |-> "pending"]
              /\ UNCHANGED out
         ELSE /\ gets' = [n \in Names |->
                            IF n < failing THEN "pending" ELSE "unissued"]
              /\ out' = finish(Err("auth", failing), "", deps, json,
                               errorOnOutdated)
  /\ UNCHANGED <<args, deps, dati, all, written, engineVars>>

\* A get settles; Promise.all rejects with the first rejection and fulfils
\* with the last fulfilment.
settle(name, outcome, body) ==
  /\ gets' = [gets EXCEPT ![name] = outcome.state]
  /\ dati' = [dati EXCEPT ![name] = body]
  /\ all' = IF all.state # "pending" THEN all
            ELSE IF outcome.state = "rejected"
              THEN [state |-> "rejected", reason |-> outcome.reason]
            ELSE IF allFulfilled(gets')
              THEN [state |-> "fulfilled", reason |-> NoError]
            ELSE all

\* The first fetch of get(name) settles: a transport failure rejects the
\* get, a body of the official registry or of a 2xx response is parsed
\* (res.json() may reject) and returned, anything else is retried on the
\* official registry.
Respond ==
  /\ ~out.exited
  /\ \E name \in Names :
       /\ gets[name] = "pending"
       /\ \E status \in {"failed", "ok", "not ok", "bad json"},
             isNpm \in BOOLEAN, body \in Bodies :
            IF status = "failed"
              THEN settle(name, [state |-> "rejected",
                                 reason |-> Err("fetch", name)], "none")
            ELSE IF status = "not ok" /\ ~isNpm
              THEN settle(name, [state |-> "retrying", reason |-> NoError],
                          "none")
            ELSE IF status = "bad json"
              THEN settle(name, [state |-> "rejected",
                                 reason |-> Err("json", name)], "none")
            ELSE settle(name, [state |-> "fulfilled", reason |-> NoError],
                        body)
  /\ UNCHANGED <<args, deps, written, out, engineVars>>

\* The retry on the official registry settles.
RetryRespond ==
  /\ ~out.exited
  /\ \E name \in Names :
       /\ gets[name] = "retrying"
       /\ \E status \in {"failed", "ok", "not ok", "bad json"},
             body \in Bodies :
            IF status = "failed"
              THEN settle(name, [state |-> "rejected",
                                 reason |-> Err("fetch", name)], "none")
            ELSE IF status = "not ok"
              THEN settle(name, [state |-> "rejected",
                                 reason |-> Err("status", name)], "none")
            ELSE IF status = "bad json"
              THEN settle(name, [state |-> "rejected",
                                 reason |-> Err("json", name)], "none")
            ELSE settle(name, [state |-> "fulfilled", reason |-> NoError],
                        body)
  /\ UNCHANGED <<args, deps, written, out, engineVars>>

\* .catch(finish) on the rejection of Promise.all.
Catch ==
  /\ ~out.exited
  /\ all.state = "rejected"
  /\ \E json \in BOOLEAN, errorOnOutdated \in BOOLEAN :
       out' = finish(all.reason, "", deps, json, errorOnOutdated)
  /\ UNCHANGED <<args, deps, gets, dati, all, written, engineVars>>

\* The then-callback after its loop returned r = [deps, error]: a throw of
\* the loop goes to .catch(finish); else finish("All packages are up to
\* date."), finish(), or the write of package.json and finish(message).
afterLoop(r, update, json, errorOnOutdated, writeFails) ==
  IF r.error # NoError
    THEN [out |-> finish(r.error, "", r.deps, json, errorOnOutdated),
          written |-> FALSE]
  ELSE IF DOMAIN r.deps = {}
    THEN [out |-> finish(NoError, "All packages are up to date.", r.deps,
                         json, errorOnOutdated),
          written |-> FALSE]
  ELSE IF ~update
    THEN [out |-> finish(NoError, "", r.deps, json, errorOnOutdated),
          written |-> FALSE]
  ELSE IF writeFails
    THEN [out |-> finish(Err("write", 0), "", r.deps, json, errorOnOutdated),
          written |-> FALSE]
  ELSE [out |-> finish(NoError, "package.json updated", r.deps, json,
                       errorOnOutdated),
        written |-> TRUE]

\* The then-callback of Promise.all: the loop over dati and what follows.
Then ==
  /\ ~out.exited
  /\ all.state = "fulfilled"
  /\ deps' = resolveFrom(deps, dati, args, 1).deps
  /\ \E json \in BOOLEAN, errorOnOutdated \in BOOLEAN, writeFails \in BOOLEAN :
       /\ out' = afterLoop(resolveFrom(deps, dati, args, 1), args.update,
                           json, errorOnOutdated, writeFails).out
       /\ written' = afterLoop(resolveFrom(deps, dati, args, 1), args.update,
                               json, errorOnOutdated, writeFails).written
  /\ UNCHANGED <<args, gets, dati, all, engineVars>>

BatchNext == FanOut \/ Respond \/ RetryRespond \/ Catch \/ Then

BatchSpec == BatchInit /\ [][BatchNext]_vars

(***************************************************************************)
(* The package of the prerelease-track example: its three versions are     *)
(* published, with their publish times fixed before the scan.              *)
(***************************************************************************)
TrackVersions == {V100b1, V100b2, V100}

TrackInit ==
  /\ opts \in {o \in Options : o.range = RBeta1 /\ o.usePre /\ ~o.useRel}
  /\ timeInData \in BOOLEAN
  /\ time \in [TrackVersions -> Dates]
  /\ EngineStart

TrackSpec == TrackInit /\ [][Next]_vars

(***************************************************************************)
(* Claims about one resolution                                             *)
(***************************************************************************)
baseline == rangeToVersion(opts.range)

\* The accepted diff classes as the specification builds them: the ceiling,
\* and with prereleases allowed "prerelease" and the pre<word> of each word
\* of the ceiling.
AllowedClasses ==
  opts.semvers
  \cup (IF opts.usePre \/ isRangePrerelease(opts.range)
         THEN {"prerelease"}
              \cup {c \in {"prepatch", "preminor", "premajor"} :
                      StripPre(c) \in opts.semvers}
         ELSE {})

\* C1: for a range other than "*", the version findVersion returns is the
\* baseline of the range itself (no diff class) or has a diff class from the
\* baseline that is in the accepted set of the ceiling; it is never outside
\* that set.
C1_WithinCeiling ==
  (pc = "done" /\ opts.range # RStar /\ IsVersion(found))
    => \/ found = baseline
       \/ Diff(baseline, found) \in AllowedClasses

\* A prerelease of a class within the ceiling was published and selected.
C1_Witness ==
  /\ pc = "done" /\ opts.range = RCaret100 /\ opts.usePre
  /\ opts.semvers = {"patch", "minor"}
  /\ V200b1 \in versions /\ V200 \in versions /\ V110 \in versions
  /\ found = V110

\* C2: under release-only findNewVersion returns no prerelease version,
\* unless the range was a prerelease and no published release qualifies.
C2_ReleaseOnly ==
  (pc = "done" /\ opts.useRel /\ isVersionPrerelease(newVersion))
    => /\ isRangePrerelease(opts.range)
       /\ ~ \E v \in versions :
             v.pre = <<>> /\ Diff(baseline, v) \in AllowedClasses

\* Release-only, prereleases asked for and published, one of them the
\* "latest" candidate by class: a release is returned.
C2_Witness ==
  /\ pc = "done" /\ opts.useRel /\ opts.usePre
  /\ opts.range = RBeta1
  /\ V100b2 \in versions /\ V200b1 \in versions
  /\ IsVersion(newVersion) /\ newVersion.pre = <<>>

\* C3: updateRange is idempotent, updateRange(updateRange(r, v), v) =
\* updateRange(r, v), for ranges with several version tokens and for
\* prerelease versions too.
C3_Idempotent ==
  pc = "done" => updateRange(newRange, newVersion) = newRange

TrackLatest ==
  /\ ~byGreatest(opts, timeInData)
  /\ \A v \in TrackVersions \ {V100b2} : time[v] < time[V100b2]

C8_NeverDecreases ==
  [][(/\ pc = "findVersion" /\ byGreatest(opts, timeInData)
      /\ IsVersion(scan.tempVersion) /\ IsVersion(scan'.tempVersion))
       => Gte(scan'.tempVersion, scan.tempVersion)]_vars

\* C9: findVersion returns null when no published version survives the
\* prerelease and diff-class filters, and otherwise one of the published
\* versions, never the coerced baseline as though it had been selected.
C9_NullOrPublished ==
  (pc = "done" /\ opts.range # RStar)
    => \/ found = Null
       \/ found \in versions

\* C10: without release-only, and for a range other than "*", the version
\* findNewVersion returns is not lower than the baseline of the range. The
\* range is taken to be a release here, so that the baseline is the same
\* whether or not a prerelease tag counts as part of it.
C10_NoDowngrade ==
  (/\ pc = "done" /\ ~opts.useRel /\ opts.range # RStar
   /\ ~isRangePrerelease(opts.range) /\ IsVersion(newVersion))
    => Gte(newVersion, baseline)

(***************************************************************************)
(* Claims about the batch                                                  *)
(***************************************************************************)
\* The metadata fetch of the dependency failed: its get rejected (transport
\* failure, unparsable body, non-2xx status after the retry) or returned a
\* body that carries an error field.
Failed(n) ==
  gets[n] = "rejected" \/ (gets[n] = "fulfilled" /\ bodyOf(dati[n]).error)

\* C5: when the metadata fetch of a dependency has failed, the batch ends
\* in a single failure that carries the error of a failed fetch; no result
\* set is output and package.json is not written.
C5_FailFast ==
  (out.exited /\ \E n \in Names : Failed(n))
    => /\ out.error.what \in {"fetch", "json", "status", "error field"}
       /\ Failed(out.error.name)
       /\ ~out.results.shown
       /\ ~written
       /\ out.message = ""

\* The part of C5 that does not depend on which error is carried: the batch
\* ends with an error, without a result set and without writing.
NoPartialSuccess ==
  (out.exited /\ \E n \in Names : Failed(n))
    => /\ out.error # NoError
       /\ ~out.results.shown
       /\ ~written
       /\ out.message = ""

\* C6: once the loop of the then-callback has processed every entry, each
\* entry left in deps has a new range, which differs from its old range, and
\* a computed version that is not null.
C6_Retained ==
  (out.exited /\ all.state = "fulfilled"
   /\ out.error.what \notin {"error field", "TypeError"})
    => \A n \in DOMAIN deps :
         /\ deps[n].new # Undefined
         /\ deps[n].new # deps[n].old
         /\ findNewVersion(bodyOf(dati[n]), optsFor(args, n, deps[n].old))
              # Null

\* One entry was kept with its new range and the other was dropped.
C6_Witness ==
  /\ out.exited /\ out.error = NoError
  /\ DOMAIN deps = {1}
  /\ deps[1].old = RCaret100 /\ deps[1].new = <<"^">> \o Format(V200)
  /\ dati[2] = "same"

\* C7: no output of any kind is produced until every fetch of the batch
\* has completed or failed (stated here for a batch whose fetches were all
\* issued).
C7_NoOutputBeforeJoin ==
  (out.exited /\ \A n \in Names : gets[n] # "unissued")
    => \A n \in Names : gets[n] \in {"fulfilled", "rejected"}

\* An entry of deps was processed by the then-callback.
Processed ==
  DOMAIN deps # Names \/ \E n \in DOMAIN deps : deps[n].new # Undefined

\* C7 as amended: every fetch is issued before the completion of any is
\* handled, and no entry is processed and nothing but an error is output
\* until every fetch of the batch has completed successfully.
C7_JoinBeforeResults ==
  /\ (\E n \in Names : gets[n] \notin {"unissued", "pending"})
       => \A n \in Names : gets[n] # "unissued"
  /\ (Processed \/ out.results.shown \/ (out.exited /\ out.error = NoError))
       => \A n \in Names : gets[n] = "fulfilled"

\* Both fetches completed, the entries were processed and the result set
\* was output.
C7_Witness ==
  /\ out.exited /\ out.results.shown /\ Processed
  /\ \A n \in Names : gets[n] = "fulfilled"
  /\ dati[1] = "same" /\ dati[2] = "newer"

====
